---- MODULE Spec2Model ----
(***************************************************************************)
(* A model of the hotkey coordinator of gemini-mcq-bot                     *)
(* (src/hotkey_listener.py) together with the parts of the two             *)
(* applications (src/main_screenshot.py, src/main_text.py) that drive it:  *)
(* the main thread, the signal handler and the workflow worker threads.    *)
(*                                                                         *)
(* Hotkey strings are sequences of one-character strings, so that          *)
(* lower(), split("+") and strip() are computed and not assumed.           *)
(* pynput key objects are strings: "Key.<name>" for a member of            *)
(* keyboard.Key and "KeyCode.<c>" for keyboard.KeyCode.from_char(c); two   *)
(* members with different names are different keys, as _normalize_key      *)
(* treats them.                                                            *)
(***************************************************************************)
EXTENDS Integers, Sequences, FiniteSets, TLC

VARIABLES
    trigger_hotkey_str,   \* __init__ argument trigger_hotkey_str
    exit_hotkey_str,      \* __init__ argument exit_hotkey_str
    built,                \* "new" before __init__, "ok" after it, "ValueError" if it raised
    trigger_combination,  \* self._trigger_combination (a parse result)
    exit_key_obj,         \* self._exit_key_obj ("unset" until assigned)
    workflow_callback,    \* self._workflow_callback ("unset" until _add_callback)
    current_keys,         \* self._current_keys
    exit_app_flag,        \* self._exit_app_flag (threading.Event)
    is_running_query,     \* self._is_running_query
    lock,                 \* self._lock: "free" or the thread holding it
    listener,             \* self._listener: "None" or "obj"
    lis_thread,           \* the pynput listener thread: "none", "alive", "stopping", "dead"
    pc,                   \* position of the threads "ev", "main", "sig", "wait"
    ev,                   \* the key event the event thread is handling
    worker,               \* position of each workflow worker thread
    hist                  \* counters and flags the claims are stated with

vars == <<trigger_hotkey_str, exit_hotkey_str, built, trigger_combination,
          exit_key_obj, workflow_callback, current_keys, exit_app_flag,
          is_running_query, lock, listener, lis_thread, pc, ev, worker, hist>>

-----------------------------------------------------------------------------
(* Bounds of the model *)

\* most tokens of a hotkey string drawn for the constructor
MaxTokens == 2
\* worker threads that can exist at the same time
MaxWorkers == 2
\* signals (SIGINT, SIGTERM) delivered to the process
MaxSignals == 1
\* how many times an owner lets start() subscribe
MaxStarts == 2

-----------------------------------------------------------------------------
(* Strings *)

UpperChars == <<"A","B","C","D","E","F","G","H","I","J","K","L","M",
                "N","O","P","Q","R","S","T","U","V","W","X","Y","Z">>
LowerChars == <<"a","b","c","d","e","f","g","h","i","j","k","l","m",
                "n","o","p","q","r","s","t","u","v","w","x","y","z">>

\* str.lower() on one character
LowerChar(c) ==
    IF \E i \in 1..Len(UpperChars) : UpperChars[i] = c
    THEN LowerChars[CHOOSE i \in 1..Len(UpperChars) : UpperChars[i] = c]
    ELSE c

\* str.lower()
StrLower(s) == [i \in 1..Len(s) |-> LowerChar(s[i])]

IsSpace(c) == c \in {" ", "\t", "\n"}

\* str.split("+"): every "+" separates two parts, empty parts are kept
RECURSIVE StrSplit(_)
StrSplit(s) ==
    IF \E i \in 1..Len(s) : s[i] = "+"
    THEN LET i == CHOOSE j \in 1..Len(s) :
                     s[j] = "+" /\ \A k \in 1..(j - 1) : s[k] # "+"
         IN  <<SubSeq(s, 1, i - 1)>> \o StrSplit(SubSeq(s, i + 1, Len(s)))
    ELSE <<s>>

RECURSIVE StripLeft(_)
StripLeft(s) ==
    IF s # <<>> /\ IsSpace(Head(s)) THEN StripLeft(Tail(s)) ELSE s

RECURSIVE StripRight(_)
StripRight(s) ==
    IF s # <<>> /\ IsSpace(s[Len(s)])
    THEN StripRight(SubSeq(s, 1, Len(s) - 1)) ELSE s

\* str.strip()
StrStrip(s) == StripRight(StripLeft(s))

\* the characters of a part as one name
RECURSIVE StrName(_)
StrName(s) == IF s = <<>> THEN "" ELSE Head(s) \o StrName(Tail(s))

-----------------------------------------------------------------------------
(* Keys *)

\* HotkeyListener._KEY_MAP
KEY_MAP ==
    [shift |-> "Key.shift", ctrl |-> "Key.ctrl", alt |-> "Key.alt",
     cmd |-> "Key.cmd", win |-> "Key.cmd", command |-> "Key.cmd",
     esc |-> "Key.esc", space |-> "Key.space", enter |-> "Key.enter",
     tab |-> "Key.tab", backspace |-> "Key.backspace",
     delete |-> "Key.delete", up |-> "Key.up", down |-> "Key.down",
     left |-> "Key.left", right |-> "Key.right",
     page_up |-> "Key.page_up", page_down |-> "Key.page_down",
     home |-> "Key.home", end |-> "Key.end",
     f1 |-> "Key.f1", f2 |-> "Key.f2", f3 |-> "Key.f3", f4 |-> "Key.f4",
     f5 |-> "Key.f5", f6 |-> "Key.f6", f7 |-> "Key.f7", f8 |-> "Key.f8",
     f9 |-> "Key.f9", f10 |-> "Key.f10", f11 |-> "Key.f11",
     f12 |-> "Key.f12"]

\* the names getattr(keyboard.Key, part, None) finds: the members the source
\* names, in _KEY_MAP's values and in _normalize_key
KeyMembers ==
    {"shift", "ctrl", "alt", "cmd", "esc", "space", "enter", "tab",
     "backspace", "delete", "up", "down", "left", "right", "page_up",
     "page_down", "home", "end", "f1", "f2", "f3", "f4", "f5", "f6", "f7",
     "f8", "f9", "f10", "f11", "f12",
     "shift_l", "shift_r", "ctrl_l", "ctrl_r", "alt_l", "alt_r", "alt_gr",
     "cmd_l", "cmd_r"}

\* keyboard.KeyCode.from_char(c)
FromChar(c) == "KeyCode." \o c

\* getattr(keyboard.Key, name)
KeyAttr(name) == "Key." \o name

\* _normalize_key that returns every key as it came
NormalizeKey_AsIs(key) == key

\* _normalize_key that knows the left variants only
NormalizeKey_LeftOnly(key) ==
    IF key \in {"Key.shift_l"} THEN "Key.shift"
    ELSE IF key \in {"Key.ctrl_l"} THEN "Key.ctrl"
    ELSE IF key \in {"Key.alt_l"} THEN "Key.alt"
    ELSE IF key \in {"Key.cmd_l"} THEN "Key.cmd"
    ELSE key

\* HotkeyListener._normalize_key
NormalizeKey(key) ==
    IF key \in {"Key.shift_l", "Key.shift_r"} THEN "Key.shift"
    ELSE IF key \in {"Key.ctrl_l", "Key.ctrl_r"} THEN "Key.ctrl"
    ELSE IF key \in {"Key.alt_l", "Key.alt_r", "Key.alt_gr"} THEN "Key.alt"
    ELSE IF key \in {"Key.cmd_l", "Key.cmd_r"} THEN "Key.cmd"
    ELSE key

-----------------------------------------------------------------------------
(* Parsing a hotkey string *)

\* Python's None as a parse result, and a set of keys as one
ParseNone == [ok |-> FALSE, keys |-> {}]
ParseKeys(keys) == [ok |-> TRUE, keys |-> keys]

\* one pass of the for loop of _parse_hotkey_string: the key of a part, or
\* "None" where the loop returns None
PartKey(part) ==
    LET p == StrStrip(part)
        name == StrName(p)
    IN  IF name \in DOMAIN KEY_MAP THEN KEY_MAP[name]
        ELSE IF Len(p) = 1 THEN FromChar(name)
        ELSE IF name \in KeyMembers THEN KeyAttr(name)
        ELSE "None"

\* the for loop of _parse_hotkey_string over the parts left, with the keys
\* collected so far
RECURSIVE ParseLoop(_, _)
ParseLoop(parts, keys) ==
    IF parts = <<>> THEN ParseKeys(keys)
    ELSE LET k == PartKey(Head(parts))
         IN  IF k = "None" THEN ParseNone
             ELSE ParseLoop(Tail(parts), keys \cup {k})

\* _parse_hotkey_string without hotkey_str.lower()
ParseHotkeyString_NoLower(hotkey_str) ==
    LET r == ParseLoop(StrSplit(hotkey_str), {})
    IN  IF r.ok /\ r.keys # {} THEN r ELSE ParseNone

\* HotkeyListener._parse_hotkey_string
ParseHotkeyString(hotkey_str) ==
    LET r == ParseLoop(StrSplit(StrLower(hotkey_str)), {})
    IN  IF r.ok /\ r.keys # {} THEN r ELSE ParseNone

\* "if not x" on a parse result: None and the empty set are falsy
Falsy(r) == ~r.ok \/ r.keys = {}

\* __init__ without the check len(parsed_exit) != 1
ConstructResult_NoLenCheck(trigger_str, exit_str) ==
    LET trig == ParseHotkeyString(trigger_str)
        parsed_exit == ParseHotkeyString(exit_str)
    IN  IF Falsy(trig) \/ Falsy(parsed_exit)
        THEN [built |-> "ValueError", trigger |-> trig, exit_key |-> "unset"]
        ELSE [built |-> "ok", trigger |-> trig,
              exit_key |-> CHOOSE k \in parsed_exit.keys : TRUE]

\* HotkeyListener.__init__: the fields it has assigned when it returns or
\* raises ValueError
ConstructResult(trigger_str, exit_str) ==
    LET trig == ParseHotkeyString(trigger_str)
        parsed_exit == ParseHotkeyString(exit_str)
    IN  IF Falsy(trig) \/ Falsy(parsed_exit) \/ Cardinality(parsed_exit.keys) # 1
        THEN [built |-> "ValueError", trigger |-> trig, exit_key |-> "unset"]
        ELSE [built |-> "ok", trigger |-> trig,
              exit_key |-> CHOOSE k \in parsed_exit.keys : TRUE]

-----------------------------------------------------------------------------
(* Configuration and keyboard *)

\* config.TRIGGER_HOTKEY_SCREENSHOT
TRIGGER_HOTKEY_SCREENSHOT == <<"s","h","i","f","t","+","s","p","a","c","e">>
\* config.EXIT_HOTKEY_STR
EXIT_HOTKEY_STR == <<"e","s","c">>

\* config.TRIGGER_HOTKEY_TEXT
TRIGGER_HOTKEY_TEXT == <<"c","o","m","m","a","n","d","+","c">>
\* the example of _parse_hotkey_string's docstring
TRIGGER_HOTKEY_EXAMPLE == <<"c","t","r","l","+","s","h","i","f","t","+","a">>

\* the raw keys pynput reports to the handlers
Keyboard ==
    {"Key.shift_l", "Key.shift_r", "Key.ctrl_l", "Key.ctrl_r", "Key.cmd_l",
     "Key.cmd_r", "Key.space", "Key.esc", "KeyCode.a", "KeyCode.c"}

\* the modifier family of a raw key, as the keyboard has it
Family(key) ==
    CASE key \in {"Key.shift", "Key.shift_l", "Key.shift_r"} -> "Key.shift"
      [] key \in {"Key.ctrl", "Key.ctrl_l", "Key.ctrl_r"} -> "Key.ctrl"
      [] key \in {"Key.alt", "Key.alt_l", "Key.alt_r", "Key.alt_gr"} -> "Key.alt"
      [] key \in {"Key.cmd", "Key.cmd_l", "Key.cmd_r"} -> "Key.cmd"
      [] OTHER -> key

\* the raw keys the user presses and releases: the left and right variants
\* of the configured keys
EventKeys ==
    {k \in Keyboard :
        Family(k) \in trigger_combination.keys \cup {exit_key_obj}}

Threads == {"ev", "main", "sig", "wait"}
Workers == 1..MaxWorkers

\* the field held says whether the trigger chord was already held when a
\* press arrived
NoEvent == [kind |-> "none", key |-> "none", ret |-> "none", held |-> FALSE]

\* __init__, lines 71-75: the fields before the hotkeys are parsed
FieldsAtStart ==
    /\ workflow_callback = "unset"
    /\ current_keys = {}
    /\ exit_app_flag = FALSE
    /\ is_running_query = FALSE
    /\ lock = "free"
    /\ listener = "None"
    /\ lis_thread = "none"

ThreadsAtStart ==
    /\ pc = [t \in Threads |->
                [at |-> IF t = "main" THEN "wire" ELSE "idle", ctx |-> "none"]]
    /\ ev = NoEvent
    /\ worker = [w \in Workers |-> "none"]
    /\ hist = [rx_sets |-> 0, signals |-> 0, raced |-> FALSE,
               last_exit |-> "none", subscriptions |-> 0,
               errored |-> FALSE, script |-> 0, spawned |-> 0,
               phys |-> {}]

\* the state in which __main__ has constructed the listener
Constructed(trigger_str, exit_str) ==
    LET c == ConstructResult(trigger_str, exit_str)
    IN  /\ trigger_hotkey_str = trigger_str
        /\ exit_hotkey_str = exit_str
        /\ built = c.built
        /\ trigger_combination = c.trigger
        /\ exit_key_obj = c.exit_key
        /\ FieldsAtStart
        /\ ThreadsAtStart

\* main_screenshot.py has constructed the listener from the hotkeys of
\* config.py
Init == Constructed(TRIGGER_HOTKEY_SCREENSHOT, EXIT_HOTKEY_STR)

-----------------------------------------------------------------------------
(* Calls and returns *)

At(t, at) == pc[t].at = at

\* the signal handler runs on the main thread, which waits for it
CanRun(t) == t = "main" => pc["sig"].at = "idle"

Idle == [at |-> "idle", ctx |-> "none"]
Exited == [at |-> "exited", ctx |-> "none"]
\* ScreenshotAnalyzerApp.run, finally: stop_listening()
Shutdown == [at |-> "st_check", ctx |-> "finally"]
\* ScreenshotAnalyzerApp.run, finally, with an exception still to propagate
ShutdownRaising == [at |-> "st_check", ctx |-> "finally_exc"]
\* __main__, except Exception as critical_error: listener_instance.stop()
Emergency == [at |-> "st_check", ctx |-> "emergency"]
\* run, except Exception as main_loop_err: self.request_exit()
LoopExcept == [at |-> "rx_check", ctx |-> "loop_except"]
\* run, except KeyboardInterrupt: self.request_exit()
LoopInterrupt == [at |-> "rx_check", ctx |-> "interrupt"]

\* where the main thread continues when the call it is in returns
MainAfterReturn ==
    CASE pc["main"].ctx = "owner" -> [at |-> "owner", ctx |-> "stop_done"]
      [] pc["main"].ctx \in {"loop_except", "interrupt"} -> Shutdown
      [] pc["main"].ctx = "finally" -> Exited
      [] pc["main"].ctx = "finally_exc" -> Emergency
      [] OTHER -> Exited

\* where the main thread continues when an exception is raised at its
\* position, by its own call or by the signal handler
MainAfterRaise ==
    CASE pc["main"].ctx = "owner" -> [at |-> "owner", ctx |-> "raised"]
      [] pc["main"].at = "loop" -> LoopExcept
      [] pc["main"].ctx \in {"loop_except", "interrupt"} -> ShutdownRaising
      [] pc["main"].ctx \in {"finally", "finally_exc"} -> Emergency
      [] pc["main"].at = "run" -> Emergency
      [] OTHER -> Exited

\* request_exit() or stop() returns to its caller on thread t
Return(t) ==
    CASE t = "ev" ->
            /\ pc' = [pc EXCEPT !["ev"] = [at |-> "ret", ctx |-> "none"]]
            /\ ev' = [ev EXCEPT !.ret = "False"]
      [] t = "sig" ->
            /\ pc' = [pc EXCEPT !["sig"] = Idle]
            /\ UNCHANGED ev
      [] t = "main" ->
            /\ pc' = [pc EXCEPT !["main"] = MainAfterReturn]
            /\ UNCHANGED ev

\* stop() raises on thread t: _on_press catches it and returns True, the
\* signal handler lets it escape into the main thread's code
Raise(t) ==
    CASE t = "ev" ->
            /\ pc' = [pc EXCEPT !["ev"] = [at |-> "ret", ctx |-> "none"]]
            /\ ev' = [ev EXCEPT !.ret = "True"]
      [] t = "sig" ->
            /\ pc' = [pc EXCEPT !["sig"] = Idle, !["main"] = MainAfterRaise]
            /\ UNCHANGED ev
      [] t = "main" ->
            /\ pc' = [pc EXCEPT !["main"] = MainAfterRaise]
            /\ UNCHANGED ev

Callers == {"ev", "main", "sig"}

-----------------------------------------------------------------------------
(* HotkeyListener.request_exit and HotkeyListener.stop, step by step *)

\* request_exit: if not self._exit_app_flag.is_set()
RxCheck(t) ==
    /\ At(t, "rx_check") /\ CanRun(t)
    /\ IF exit_app_flag
       THEN Return(t)
       ELSE pc' = [pc EXCEPT ![t].at = "rx_set"] /\ UNCHANGED ev
    /\ UNCHANGED <<trigger_hotkey_str, exit_hotkey_str, built,
                   trigger_combination, exit_key_obj, workflow_callback,
                   current_keys, exit_app_flag, is_running_query, lock,
                   listener, lis_thread, worker, hist>>

\* request_exit: self._exit_app_flag.set(); self.stop()
RxSet(t) ==
    /\ At(t, "rx_set") /\ CanRun(t)
    /\ exit_app_flag' = TRUE
    /\ hist' = [hist EXCEPT !.rx_sets = @ + 1]
    /\ pc' = [pc EXCEPT ![t].at = "st_check"]
    /\ UNCHANGED <<trigger_hotkey_str, exit_hotkey_str, built,
                   trigger_combination, exit_key_obj, workflow_callback,
                   current_keys, is_running_query, lock, listener,
                   lis_thread, ev, worker>>

\* stop without the test of self._listener
StCheck_NoNoneTest(t) ==
    /\ At(t, "st_check") /\ CanRun(t)
    /\ pc' = [pc EXCEPT ![t].at = "st_alive"]
    /\ UNCHANGED <<trigger_hotkey_str, exit_hotkey_str, built,
                   trigger_combination, exit_key_obj, workflow_callback,
                   current_keys, exit_app_flag, is_running_query, lock,
                   listener, lis_thread, ev, worker, hist>>

\* stop: if self._listener
StCheck(t) ==
    /\ At(t, "st_check") /\ CanRun(t)
    /\ IF listener # "None"
       THEN pc' = [pc EXCEPT ![t].at = "st_alive"] /\ UNCHANGED ev
       ELSE Return(t)
    /\ UNCHANGED <<trigger_hotkey_str, exit_hotkey_str, built,
                   trigger_combination, exit_key_obj, workflow_callback,
                   current_keys, exit_app_flag, is_running_query, lock,
                   listener, lis_thread, worker, hist>>

\* stop: if self._listener.is_alive(), outside the try block
StAlive(t) ==
    /\ At(t, "st_alive") /\ CanRun(t)
    /\ IF listener = "None"
       THEN Raise(t)
       ELSE /\ pc' = [pc EXCEPT ![t].at =
                        IF lis_thread \in {"alive", "stopping"}
                        THEN "st_stop" ELSE "st_clear"]
            /\ UNCHANGED ev
    /\ UNCHANGED <<trigger_hotkey_str, exit_hotkey_str, built,
                   trigger_combination, exit_key_obj, workflow_callback,
                   current_keys, exit_app_flag, is_running_query, lock,
                   listener, lis_thread, worker, hist>>

\* stop: try: self._listener.stop() except Exception
StStop(t) ==
    /\ At(t, "st_stop") /\ CanRun(t)
    /\ lis_thread' = IF listener # "None" /\ lis_thread = "alive"
                     THEN "stopping" ELSE lis_thread
    /\ pc' = [pc EXCEPT ![t].at = "st_clear"]
    /\ UNCHANGED <<trigger_hotkey_str, exit_hotkey_str, built,
                   trigger_combination, exit_key_obj, workflow_callback,
                   current_keys, exit_app_flag, is_running_query, lock,
                   listener, ev, worker, hist>>

\* stop: self._listener = None
StClear(t) ==
    /\ At(t, "st_clear") /\ CanRun(t)
    /\ listener' = "None"
    /\ Return(t)
    /\ UNCHANGED <<trigger_hotkey_str, exit_hotkey_str, built,
                   trigger_combination, exit_key_obj, workflow_callback,
                   current_keys, exit_app_flag, is_running_query, lock,
                   lis_thread, worker, hist>>

-----------------------------------------------------------------------------
(* The main thread and the signal handler *)

\* __main__: listener_instance._add_callback(app.run_analysis_workflow)
MainAddCallback ==
    /\ At("main", "wire") /\ built = "ok"
    /\ workflow_callback' = "fn"
    /\ pc' = [pc EXCEPT !["main"].at = "run"]
    /\ UNCHANGED <<trigger_hotkey_str, exit_hotkey_str, built,
                   trigger_combination, exit_key_obj, current_keys,
                   exit_app_flag, is_running_query, lock, listener,
                   lis_thread, ev, worker, hist>>

\* an owner that starts the listener without registering a callback
MainSkipCallback ==
    /\ At("main", "wire") /\ built = "ok"
    /\ pc' = [pc EXCEPT !["main"].at = "run"]
    /\ UNCHANGED <<trigger_hotkey_str, exit_hotkey_str, built,
                   trigger_combination, exit_key_obj, workflow_callback,
                   current_keys, exit_app_flag, is_running_query, lock,
                   listener, lis_thread, ev, worker, hist>>

\* start() that clears the exit event before it starts the listener
MainStart_ClearsExit ==
    /\ At("main", "run") /\ CanRun("main")
    /\ listener' = "obj"
    /\ lis_thread' = "alive"
    /\ exit_app_flag' = FALSE
    /\ hist' = [hist EXCEPT !.subscriptions = @ + 1]
    /\ pc' = [pc EXCEPT !["main"].at = "loop"]
    /\ UNCHANGED <<trigger_hotkey_str, exit_hotkey_str, built,
                   trigger_combination, exit_key_obj, workflow_callback,
                   current_keys, is_running_query, lock, ev, worker>>

\* run -> start_listening -> HotkeyListener.start, the listener starts
MainStart ==
    /\ At("main", "run") /\ CanRun("main")
    /\ listener' = "obj"
    /\ lis_thread' = "alive"
    /\ hist' = [hist EXCEPT !.subscriptions = @ + 1]
    /\ pc' = [pc EXCEPT !["main"].at = "loop"]
    /\ UNCHANGED <<trigger_hotkey_str, exit_hotkey_str, built,
                   trigger_combination, exit_key_obj, workflow_callback,
                   current_keys, exit_app_flag, is_running_query, lock, ev,
                   worker>>

\* HotkeyListener.start fails: it returns False and start_listening exits
MainStartFails ==
    /\ At("main", "run") /\ CanRun("main")
    /\ listener' = "None"
    /\ pc' = [pc EXCEPT !["main"] = Exited]
    /\ UNCHANGED <<trigger_hotkey_str, exit_hotkey_str, built,
                   trigger_combination, exit_key_obj, workflow_callback,
                   current_keys, exit_app_flag, is_running_query, lock,
                   lis_thread, ev, worker, hist>>

\* run: while not self.listener.is_exit_requested(), left once the flag is set
MainLoop ==
    /\ At("main", "loop") /\ CanRun("main")
    /\ exit_app_flag
    /\ pc' = [pc EXCEPT !["main"] = Shutdown]
    /\ UNCHANGED <<trigger_hotkey_str, exit_hotkey_str, built,
                   trigger_combination, exit_key_obj, workflow_callback,
                   current_keys, exit_app_flag, is_running_query, lock,
                   listener, lis_thread, ev, worker, hist>>

\* signal_handler: _app_instance.request_exit()
SignalArrives ==
    /\ At("sig", "idle")
    /\ pc["main"].at \notin {"wire", "exited"}
    /\ hist.signals < MaxSignals
    /\ hist' = [hist EXCEPT !.signals = @ + 1]
    /\ pc' = [pc EXCEPT !["sig"] = [at |-> "rx_check", ctx |-> "handler"]]
    /\ UNCHANGED <<trigger_hotkey_str, exit_hotkey_str, built,
                   trigger_combination, exit_key_obj, workflow_callback,
                   current_keys, exit_app_flag, is_running_query, lock,
                   listener, lis_thread, ev, worker>>

\* run: Ctrl+C where the SIGINT handler could not be installed raises
\* KeyboardInterrupt in the polling loop
KeyboardInterrupt ==
    /\ At("main", "loop") /\ CanRun("main")
    /\ hist.signals < MaxSignals
    /\ hist' = [hist EXCEPT !.signals = @ + 1]
    /\ pc' = [pc EXCEPT !["main"] = LoopInterrupt]
    /\ UNCHANGED <<trigger_hotkey_str, exit_hotkey_str, built,
                   trigger_combination, exit_key_obj, workflow_callback,
                   current_keys, exit_app_flag, is_running_query, lock,
                   listener, lis_thread, ev, worker>>

-----------------------------------------------------------------------------
(* A thread that calls wait_for_exit *)

\* wait_for_exit: the caller enters self._exit_app_flag.wait()
WaitCall ==
    /\ At("wait", "idle") /\ built = "ok"
    /\ pc' = [pc EXCEPT !["wait"].at = "blocked"]
    /\ UNCHANGED <<trigger_hotkey_str, exit_hotkey_str, built,
                   trigger_combination, exit_key_obj, workflow_callback,
                   current_keys, exit_app_flag, is_running_query, lock,
                   listener, lis_thread, ev, worker, hist>>

\* wait_for_exit that returns without waiting for the flag
WaitReturn_NoWait ==
    /\ At("wait", "blocked")
    /\ pc' = [pc EXCEPT !["wait"].at = "returned"]
    /\ UNCHANGED <<trigger_hotkey_str, exit_hotkey_str, built,
                   trigger_combination, exit_key_obj, workflow_callback,
                   current_keys, exit_app_flag, is_running_query, lock,
                   listener, lis_thread, ev, worker, hist>>

\* wait_for_exit: Event.wait() returns once the flag is set
WaitReturn ==
    /\ At("wait", "blocked")
    /\ exit_app_flag
    /\ pc' = [pc EXCEPT !["wait"].at = "returned"]
    /\ UNCHANGED <<trigger_hotkey_str, exit_hotkey_str, built,
                   trigger_combination, exit_key_obj, workflow_callback,
                   current_keys, exit_app_flag, is_running_query, lock,
                   listener, lis_thread, ev, worker, hist>>

-----------------------------------------------------------------------------
(* The event thread: _on_press and _on_release *)

ListenerDelivers == lis_thread \in {"alive", "stopping"} /\ At("ev", "idle")

FreeWorkers == {w \in Workers : worker[w] = "none"}

TriggerHeld(keys) == trigger_combination.keys \subseteq keys

EvAt(at) == pc' = [pc EXCEPT !["ev"].at = at]

\* _on_press up to the trigger check: the exit check, normalize, add, issubset
OnPressCheck(key) ==
    /\ ListenerDelivers
    /\ TriggerHeld(current_keys \cup {NormalizeKey(key)}) => FreeWorkers # {}
    /\ IF exit_app_flag
       THEN /\ ev' = [kind |-> "press", key |-> key, ret |-> "False",
                      held |-> TriggerHeld(current_keys)]
            /\ EvAt("ret")
            /\ UNCHANGED current_keys
       ELSE /\ ev' = [kind |-> "press", key |-> key, ret |-> "none",
                      held |-> TriggerHeld(current_keys)]
            /\ current_keys' = current_keys \cup {NormalizeKey(key)}
            /\ IF TriggerHeld(current_keys')
               THEN EvAt("lock") ELSE EvAt("exit_key")
    /\ UNCHANGED <<trigger_hotkey_str, exit_hotkey_str, built,
                   trigger_combination, exit_key_obj, workflow_callback,
                   exit_app_flag, is_running_query, lock, listener,
                   lis_thread, worker>>

\* the press of one of the keys the user works with
OnPressEnter(key) ==
    /\ key \in EventKeys
    /\ OnPressCheck(key)
    /\ UNCHANGED hist

\* _on_press that marks the query as running as soon as it holds the lock
OnPressLock_SetsRunning ==
    /\ At("ev", "lock")
    /\ lock = "free"
    /\ lock' = "ev"
    /\ is_running_query' = TRUE
    /\ EvAt("crit")
    /\ UNCHANGED <<trigger_hotkey_str, exit_hotkey_str, built,
                   trigger_combination, exit_key_obj, workflow_callback,
                   current_keys, exit_app_flag, listener, lis_thread, ev,
                   worker, hist>>

\* _on_press: with self._lock
OnPressLock ==
    /\ At("ev", "lock")
    /\ lock = "free"
    /\ lock' = "ev"
    /\ EvAt("crit")
    /\ UNCHANGED <<trigger_hotkey_str, exit_hotkey_str, built,
                   trigger_combination, exit_key_obj, workflow_callback,
                   current_keys, exit_app_flag, is_running_query, listener,
                   lis_thread, ev, worker, hist>>

\* threading.Thread(target=self._workflow_callback, daemon=True).start()
SpawnWorker ==
    \E w \in FreeWorkers :
        /\ \A v \in FreeWorkers : w <= v
        /\ worker' = [worker EXCEPT ![w] = "spawned"]
        /\ hist' = [hist EXCEPT
                      !.raced = @ \/ \E v \in Workers : worker[v] = "spawned",
                      !.spawned = IF hist.script = 0 THEN @ ELSE @ + 1]

\* _on_press under the lock without the test of self._is_running_query
OnPressCrit_NoRunningCheck ==
    /\ At("ev", "crit")
    /\ lock' = "free"
    /\ IF workflow_callback = "unset"
       THEN /\ EvAt("ret")
            /\ ev' = [ev EXCEPT !.ret = "True"]
            /\ UNCHANGED <<worker, hist>>
       ELSE /\ SpawnWorker
            /\ EvAt("exit_key")
            /\ UNCHANGED ev
    /\ UNCHANGED <<trigger_hotkey_str, exit_hotkey_str, built,
                   trigger_combination, exit_key_obj, workflow_callback,
                   current_keys, exit_app_flag, is_running_query, listener,
                   lis_thread>>

\* _on_press under the lock that sets _is_running_query itself when it spawns
OnPressCrit_SetsRunning ==
    /\ At("ev", "crit")
    /\ lock' = "free"
    /\ IF is_running_query
       THEN EvAt("exit_key") /\ UNCHANGED <<ev, worker, hist, is_running_query>>
       ELSE IF workflow_callback = "unset"
       THEN /\ EvAt("ret")
            /\ ev' = [ev EXCEPT !.ret = "True"]
            /\ UNCHANGED <<worker, hist, is_running_query>>
       ELSE /\ SpawnWorker
            /\ is_running_query' = TRUE
            /\ EvAt("exit_key")
            /\ UNCHANGED ev
    /\ UNCHANGED <<trigger_hotkey_str, exit_hotkey_str, built,
                   trigger_combination, exit_key_obj, workflow_callback,
                   current_keys, exit_app_flag, listener, lis_thread>>

\* _on_press that leaves the critical section without releasing the lock
OnPressCrit_KeepsLock ==
    /\ At("ev", "crit")
    /\ lock' = lock
    /\ IF is_running_query
       THEN EvAt("exit_key") /\ UNCHANGED <<ev, worker, hist>>
       ELSE IF workflow_callback = "unset"
       THEN /\ EvAt("ret")
            /\ ev' = [ev EXCEPT !.ret = "True"]
            /\ UNCHANGED <<worker, hist>>
       ELSE /\ SpawnWorker
            /\ EvAt("exit_key")
            /\ UNCHANGED ev
    /\ UNCHANGED <<trigger_hotkey_str, exit_hotkey_str, built,
                   trigger_combination, exit_key_obj, workflow_callback,
                   current_keys, exit_app_flag, is_running_query, listener,
                   lis_thread>>

\* _on_press under the lock: the running check, the callback, the spawn;
\* reading the callback that was never assigned raises AttributeError, which
\* the handler's except clause turns into the return value True
OnPressCrit ==
    /\ At("ev", "crit")
    /\ lock' = "free"
    /\ IF is_running_query
       THEN EvAt("exit_key") /\ UNCHANGED <<ev, worker, hist>>
       ELSE IF workflow_callback = "unset"
       THEN /\ EvAt("ret")
            /\ ev' = [ev EXCEPT !.ret = "True"]
            /\ UNCHANGED <<worker, hist>>
       ELSE /\ SpawnWorker
            /\ EvAt("exit_key")
            /\ UNCHANGED ev
    /\ UNCHANGED <<trigger_hotkey_str, exit_hotkey_str, built,
                   trigger_combination, exit_key_obj, workflow_callback,
                   current_keys, exit_app_flag, is_running_query, listener,
                   lis_thread>>

\* _on_press: if norm_key == self._exit_key_obj: self.request_exit()
OnPressExitKey ==
    /\ At("ev", "exit_key")
    /\ IF NormalizeKey(ev.key) = exit_key_obj
       THEN /\ pc' = [pc EXCEPT !["ev"] =
                        [at |-> "rx_check", ctx |-> "on_press"]]
            /\ UNCHANGED ev
       ELSE /\ EvAt("ret")
            /\ ev' = [ev EXCEPT !.ret = "None"]
    /\ UNCHANGED <<trigger_hotkey_str, exit_hotkey_str, built,
                   trigger_combination, exit_key_obj, workflow_callback,
                   current_keys, exit_app_flag, is_running_query, lock,
                   listener, lis_thread, worker, hist>>

\* _on_release without the test of is_exit_requested()
OnRelease_NoExitCheck(key) ==
    /\ ListenerDelivers
    /\ key \in EventKeys
    /\ ev' = [kind |-> "release", key |-> key, ret |-> "None",
              held |-> FALSE]
    /\ current_keys' = current_keys \ {NormalizeKey(key)}
    /\ EvAt("ret")
    /\ UNCHANGED <<trigger_hotkey_str, exit_hotkey_str, built,
                   trigger_combination, exit_key_obj, workflow_callback,
                   exit_app_flag, is_running_query, lock, listener,
                   lis_thread, worker, hist>>

\* _on_release with set.remove in place of set.discard: an absent key raises
\* KeyError, which the except clause turns into the return value True
OnRelease_Remove(key) ==
    /\ ListenerDelivers
    /\ key \in EventKeys
    /\ IF exit_app_flag
       THEN /\ ev' = [kind |-> "release", key |-> key, ret |-> "False",
                      held |-> FALSE]
            /\ UNCHANGED current_keys
       ELSE /\ ev' = [kind |-> "release", key |-> key,
                      ret |-> IF NormalizeKey(key) \in current_keys
                              THEN "None" ELSE "True",
                      held |-> FALSE]
            /\ current_keys' = current_keys \ {NormalizeKey(key)}
    /\ EvAt("ret")
    /\ UNCHANGED <<trigger_hotkey_str, exit_hotkey_str, built,
                   trigger_combination, exit_key_obj, workflow_callback,
                   exit_app_flag, is_running_query, lock, listener,
                   lis_thread, worker, hist>>

\* _on_release: the exit check, normalize, discard
OnReleaseCheck(key) ==
    /\ ListenerDelivers
    /\ IF exit_app_flag
       THEN /\ ev' = [kind |-> "release", key |-> key, ret |-> "False",
                      held |-> FALSE]
            /\ UNCHANGED current_keys
       ELSE /\ ev' = [kind |-> "release", key |-> key, ret |-> "None",
                      held |-> FALSE]
            /\ current_keys' = current_keys \ {NormalizeKey(key)}
    /\ EvAt("ret")
    /\ UNCHANGED <<trigger_hotkey_str, exit_hotkey_str, built,
                   trigger_combination, exit_key_obj, workflow_callback,
                   exit_app_flag, is_running_query, lock, listener,
                   lis_thread, worker>>

\* the release of one of the keys the user works with
OnRelease(key) ==
    /\ key \in EventKeys
    /\ OnReleaseCheck(key)
    /\ UNCHANGED hist

\* pynput takes the handler's return value: False stops the listener
EvReturn ==
    /\ At("ev", "ret")
    /\ lis_thread' = IF ev.ret = "False" /\ lis_thread = "alive"
                     THEN "stopping" ELSE lis_thread
    /\ ev' = NoEvent
    /\ pc' = [pc EXCEPT !["ev"] = Idle]
    /\ hist' = [hist EXCEPT !.errored = @ \/ ev.ret = "True"]
    /\ UNCHANGED <<trigger_hotkey_str, exit_hotkey_str, built,
                   trigger_combination, exit_key_obj, workflow_callback,
                   current_keys, exit_app_flag, is_running_query, lock,
                   listener, worker>>

\* the listener thread ends after it was told to stop
ListenerExit ==
    /\ lis_thread = "stopping" /\ At("ev", "idle")
    /\ lis_thread' = "dead"
    /\ UNCHANGED <<trigger_hotkey_str, exit_hotkey_str, built,
                   trigger_combination, exit_key_obj, workflow_callback,
                   current_keys, exit_app_flag, is_running_query, lock,
                   listener, pc, ev, worker, hist>>

-----------------------------------------------------------------------------
(* The workflow worker threads: run_analysis_workflow *)

\* set_query_running that takes the lock and stores nothing
SetQueryRunning_StoresNothing(status) ==
    /\ lock = "free"
    /\ is_running_query' = is_running_query

\* HotkeyListener.set_query_running
SetQueryRunning(status) ==
    /\ lock = "free"
    /\ is_running_query' = status

\* run_analysis_workflow starting with set_query_running(False)
WorkerBegin_WrongStatus(w) ==
    /\ worker[w] = "spawned"
    /\ SetQueryRunning(FALSE)
    /\ worker' = [worker EXCEPT ![w] = "running"]
    /\ UNCHANGED <<trigger_hotkey_str, exit_hotkey_str, built,
                   trigger_combination, exit_key_obj, workflow_callback,
                   current_keys, exit_app_flag, lock, listener, lis_thread,
                   pc, ev, hist>>

\* run_analysis_workflow: self.listener.set_query_running(True)
WorkerBegin(w) ==
    /\ worker[w] = "spawned"
    /\ SetQueryRunning(TRUE)
    /\ worker' = [worker EXCEPT ![w] = "running"]
    /\ UNCHANGED <<trigger_hotkey_str, exit_hotkey_str, built,
                   trigger_combination, exit_key_obj, workflow_callback,
                   current_keys, exit_app_flag, lock, listener, lis_thread,
                   pc, ev, hist>>

\* run_analysis_workflow: the try block is left, by completion, by a return
\* or by an exception, and finally calls self.listener.set_query_running(False)
WorkerFinally(w) ==
    /\ worker[w] = "running"
    /\ SetQueryRunning(FALSE)
    /\ worker' = [worker EXCEPT ![w] = "tail"]
    /\ UNCHANGED <<trigger_hotkey_str, exit_hotkey_str, built,
                   trigger_combination, exit_key_obj, workflow_callback,
                   current_keys, exit_app_flag, lock, listener, lis_thread,
                   pc, ev, hist>>

\* run_analysis_workflow: the final message, then the thread ends
WorkerEnd(w) ==
    /\ worker[w] = "tail"
    /\ worker' = [worker EXCEPT ![w] = "none"]
    /\ UNCHANGED <<trigger_hotkey_str, exit_hotkey_str, built,
                   trigger_combination, exit_key_obj, workflow_callback,
                   current_keys, exit_app_flag, is_running_query, lock,
                   listener, lis_thread, pc, ev, hist>>

-----------------------------------------------------------------------------
(* The steps of run_analysis_workflow between set_query_running(True) and   *)
(* the finally clause                                                       *)

\* what a step of the workflow leaves alone
WorkflowFrame ==
    UNCHANGED <<trigger_hotkey_str, exit_hotkey_str, built,
                trigger_combination, exit_key_obj, workflow_callback,
                current_keys, exit_app_flag, is_running_query, lock,
                listener, lis_thread, pc, ev, hist>>

\* the ways the try block is left
LeaveStates ==
    {"leave_normal", "leave_capture", "leave_abort", "leave_exception"}

\* screenshot_path = utils.take_screenshot(); if not screenshot_path: return
TakeScreenshot(w) ==
    /\ worker[w] = "running"
    /\ \E path_ok \in BOOLEAN :
          worker' = [worker EXCEPT ![w] =
                        IF path_ok THEN "check1" ELSE "leave_capture"]
    /\ WorkflowFrame

\* the workflow without the test of is_exit_requested() before the analysis
ExitCheckBeforeAnalysis_NoCheck(w) ==
    /\ worker[w] = "check1"
    /\ worker' = [worker EXCEPT ![w] = "analyze"]
    /\ WorkflowFrame

\* if self.listener.is_exit_requested(): return  (before the analysis)
ExitCheckBeforeAnalysis(w) ==
    /\ worker[w] = "check1"
    /\ worker' = [worker EXCEPT ![w] =
                    IF exit_app_flag THEN "leave_abort" ELSE "analyze"]
    /\ WorkflowFrame

\* what analyze_image can return: the answer of the model; from
\* _parse_response a text with ERROR_PREFIX or with BLOCKED_PREFIX; from its
\* own except clause str(e), the bare message of the exception
AnalysisResults ==
    {"check2_answer", "check2_error", "check2_blocked", "check2_failed"}

\* analysis_result.startswith(ERROR_PREFIX) or .startswith(BLOCKED_PREFIX)
StartsWithPrefix(result) == result \in {"check2_error", "check2_blocked"}

\* analysis_result = self.analyzer.analyze_image(screenshot_path), then the
\* print of the result, which is where an exception can still come from
AnalyzeImage(w) ==
    /\ worker[w] = "analyze"
    /\ \E result \in AnalysisResults \cup {"leave_exception"} :
          worker' = [worker EXCEPT ![w] = result]
    /\ WorkflowFrame

\* if self.listener.is_exit_requested(): return  (after the analysis), then
\* the test of self.speaker and of the prefixes of analysis_result
ExitCheckBeforeSpeak(w) ==
    /\ worker[w] \in AnalysisResults
    /\ \E speaker \in BOOLEAN :
          worker' = [worker EXCEPT ![w] =
                        IF exit_app_flag THEN "leave_abort"
                        ELSE IF speaker /\ ~StartsWithPrefix(worker[w])
                        THEN "speak" ELSE "leave_normal"]
    /\ WorkflowFrame

\* success = self.speaker.speak(analysis_result): True, False or an exception
Speak(w) ==
    /\ worker[w] = "speak"
    /\ \E raised \in BOOLEAN :
          worker' = [worker EXCEPT ![w] =
                        IF raised THEN "leave_exception" ELSE "check3"]
    /\ WorkflowFrame

\* if self.listener.is_exit_requested(): return  (after speaking)
ExitCheckAfterSpeak(w) ==
    /\ worker[w] = "check3"
    /\ worker' = [worker EXCEPT ![w] =
                    IF exit_app_flag THEN "leave_abort" ELSE "leave_normal"]
    /\ WorkflowFrame

\* the workflow whose except clause leaves without the reset of the flag
WorkflowFinally_ExceptionSkipsReset(w) ==
    /\ worker[w] \in LeaveStates
    /\ lock = "free"
    /\ is_running_query' =
          IF worker[w] = "leave_exception" THEN is_running_query ELSE FALSE
    /\ worker' = [worker EXCEPT ![w] = "tail"]
    /\ hist' = [hist EXCEPT !.last_exit = worker[w]]
    /\ UNCHANGED <<trigger_hotkey_str, exit_hotkey_str, built,
                   trigger_combination, exit_key_obj, workflow_callback,
                   current_keys, exit_app_flag, lock, listener, lis_thread,
                   pc, ev>>

\* finally: utils.cleanup_file(screenshot_path);
\* self.listener.set_query_running(False)
WorkflowFinally(w) ==
    /\ worker[w] \in LeaveStates
    /\ SetQueryRunning(FALSE)
    /\ worker' = [worker EXCEPT ![w] = "tail"]
    /\ hist' = [hist EXCEPT !.last_exit = worker[w]]
    /\ UNCHANGED <<trigger_hotkey_str, exit_hotkey_str, built,
                   trigger_combination, exit_key_obj, workflow_callback,
                   current_keys, exit_app_flag, lock, listener, lis_thread,
                   pc, ev>>

\* a step of the try block of worker w
WorkflowStep(w) ==
    \/ TakeScreenshot(w)
    \/ ExitCheckBeforeAnalysis(w)
    \/ AnalyzeImage(w)
    \/ ExitCheckBeforeSpeak(w)
    \/ Speak(w)
    \/ ExitCheckAfterSpeak(w)

-----------------------------------------------------------------------------
(* The specification of the running program *)

Next ==
    \/ MainAddCallback
    \/ MainSkipCallback
    \/ MainStart
    \/ MainStartFails
    \/ MainLoop
    \/ SignalArrives
    \/ \E t \in Callers : RxCheck(t)
    \/ \E t \in Callers : RxSet(t)
    \/ \E t \in Callers : StCheck(t)
    \/ \E t \in Callers : StAlive(t)
    \/ \E t \in Callers : StStop(t)
    \/ \E t \in Callers : StClear(t)
    \/ \E key \in Keyboard : OnPressEnter(key)
    \/ OnPressLock
    \/ OnPressCrit
    \/ OnPressExitKey
    \/ \E key \in Keyboard : OnRelease(key)
    \/ EvReturn
    \/ ListenerExit
    \/ \E w \in Workers : WorkerBegin(w)
    \/ \E w \in Workers : WorkerFinally(w)
    \/ \E w \in Workers : WorkerEnd(w)

Spec == Init /\ [][Next]_vars

\* the program with one more thread, which calls wait_for_exit
NextWait == Next \/ WaitCall \/ WaitReturn

\* the steps of request_exit and stop on thread t
CallStep(t) ==
    \/ RxCheck(t) \/ RxSet(t)
    \/ StCheck(t) \/ StAlive(t) \/ StStop(t) \/ StClear(t)

\* the steps of a handler that has begun
HandlerStep ==
    OnPressLock \/ OnPressCrit \/ OnPressExitKey \/ EvReturn

\* the scheduler runs every thread that can take a step; key events,
\* signals and the end of a workflow are not promised
Fairness ==
    /\ WF_vars(CallStep("ev") \/ HandlerStep \/ ListenerExit)
    /\ WF_vars(CallStep("main") \/ MainLoop)
    /\ WF_vars(CallStep("sig"))
    /\ WF_vars(WaitReturn)

FairSpec == Init /\ [][NextWait]_vars /\ Fairness

\* the program where Ctrl+C may also come as KeyboardInterrupt
NextShutdown == Next \/ KeyboardInterrupt

SpecShutdown == Init /\ [][NextShutdown]_vars /\ Fairness

-----------------------------------------------------------------------------
(* The chord scenario: each key of the trigger pressed once *)

\* a key of the trigger combination, in any raw variant, that was not
\* pressed before is pressed
ChordPress(key) ==
    /\ Family(key) \in trigger_combination.keys
    /\ \A c \in current_keys : Family(c) # Family(key)
    /\ OnPressEnter(key)

NextChord ==
    \/ MainAddCallback
    \/ MainStart
    \/ \E key \in Keyboard : ChordPress(key)
    \/ OnPressLock
    \/ OnPressCrit
    \/ OnPressExitKey
    \/ EvReturn
    \/ \E w \in Workers : WorkerBegin(w)
    \/ \E w \in Workers : WorkerFinally(w)

\* the triggers of the two programs and the three-key example
ChordTriggers ==
    {TRIGGER_HOTKEY_SCREENSHOT, TRIGGER_HOTKEY_TEXT, TRIGGER_HOTKEY_EXAMPLE}

InitChord == \E trig \in ChordTriggers : Constructed(trig, EXIT_HOTKEY_STR)

SpecChord == InitChord /\ [][NextChord]_vars

-----------------------------------------------------------------------------
(* The listener with its workers followed step by step through the workflow *)

NextWorkflow ==
    \/ MainAddCallback
    \/ MainStart
    \/ \E key \in Keyboard : OnPressEnter(key)
    \/ OnPressLock
    \/ OnPressCrit
    \/ OnPressExitKey
    \/ \E key \in Keyboard : OnRelease(key)
    \/ EvReturn
    \/ RxCheck("ev")
    \/ RxSet("ev")
    \/ StCheck("ev")
    \/ StAlive("ev")
    \/ StStop("ev")
    \/ StClear("ev")
    \/ \E w \in Workers : WorkerBegin(w)
    \/ \E w \in Workers : TakeScreenshot(w)
    \/ \E w \in Workers : ExitCheckBeforeAnalysis(w)
    \/ \E w \in Workers : AnalyzeImage(w)
    \/ \E w \in Workers : ExitCheckBeforeSpeak(w)
    \/ \E w \in Workers : Speak(w)
    \/ \E w \in Workers : ExitCheckAfterSpeak(w)
    \/ \E w \in Workers : WorkflowFinally(w)
    \/ \E w \in Workers : WorkerEnd(w)

SpecWorkflow == Init /\ [][NextWorkflow]_vars

-----------------------------------------------------------------------------
(* An owner that calls start() and stop() one after the other, in any order *)

\* the owner is between two calls; ctx holds the outcome of the last one
OwnerAt == At("main", "owner")

\* the owner calls start()
OwnerCallsStart ==
    /\ OwnerAt
    /\ hist.subscriptions < MaxStarts
    /\ pc' = [pc EXCEPT !["main"] = [at |-> "start", ctx |-> "owner"]]
    /\ UNCHANGED <<trigger_hotkey_str, exit_hotkey_str, built,
                   trigger_combination, exit_key_obj, workflow_callback,
                   current_keys, exit_app_flag, is_running_query, lock,
                   listener, lis_thread, ev, worker, hist>>

\* the owner calls stop()
OwnerCallsStop ==
    /\ OwnerAt
    /\ pc' = [pc EXCEPT !["main"] = [at |-> "st_check", ctx |-> "owner"]]
    /\ UNCHANGED <<trigger_hotkey_str, exit_hotkey_str, built,
                   trigger_combination, exit_key_obj, workflow_callback,
                   current_keys, exit_app_flag, is_running_query, lock,
                   listener, lis_thread, ev, worker, hist>>

\* self._listener and self._listener.is_alive()
ListenerRunning == listener # "None" /\ lis_thread \in {"alive", "stopping"}

\* start() without the test of a running listener
Start_NoRunningTest ==
    /\ At("main", "start")
    /\ \E started \in BOOLEAN :
          IF started
          THEN /\ listener' = "obj"
               /\ lis_thread' = "alive"
               /\ hist' = [hist EXCEPT !.subscriptions = @ + 1]
               /\ pc' = [pc EXCEPT !["main"] =
                            [at |-> "owner", ctx |-> "start_true"]]
          ELSE /\ listener' = "None"
               /\ pc' = [pc EXCEPT !["main"] =
                            [at |-> "owner", ctx |-> "start_false"]]
               /\ UNCHANGED <<lis_thread, hist>>
    /\ UNCHANGED <<trigger_hotkey_str, exit_hotkey_str, built,
                   trigger_combination, exit_key_obj, workflow_callback,
                   current_keys, exit_app_flag, is_running_query, lock, ev,
                   worker>>

\* start() whose except clause keeps the listener it failed to start
Start_FailureKeepsListener ==
    /\ At("main", "start")
    /\ IF ListenerRunning
       THEN /\ pc' = [pc EXCEPT !["main"] =
                        [at |-> "owner", ctx |-> "start_running"]]
            /\ UNCHANGED <<listener, lis_thread, hist>>
       ELSE \E started \in BOOLEAN :
               IF started
               THEN /\ listener' = "obj"
                    /\ lis_thread' = "alive"
                    /\ hist' = [hist EXCEPT !.subscriptions = @ + 1]
                    /\ pc' = [pc EXCEPT !["main"] =
                                 [at |-> "owner", ctx |-> "start_true"]]
               ELSE /\ listener' = "obj"
                    /\ pc' = [pc EXCEPT !["main"] =
                                 [at |-> "owner", ctx |-> "start_false"]]
                    /\ UNCHANGED <<lis_thread, hist>>
    /\ UNCHANGED <<trigger_hotkey_str, exit_hotkey_str, built,
                   trigger_combination, exit_key_obj, workflow_callback,
                   current_keys, exit_app_flag, is_running_query, lock, ev,
                   worker>>

\* HotkeyListener.start: already running, returns True; otherwise it creates
\* and starts a keyboard.Listener and returns True, or the attempt raises, the
\* except clause sets self._listener = None and it returns False
Start ==
    /\ At("main", "start")
    /\ IF ListenerRunning
       THEN /\ pc' = [pc EXCEPT !["main"] =
                        [at |-> "owner", ctx |-> "start_running"]]
            /\ UNCHANGED <<listener, lis_thread, hist>>
       ELSE \E started \in BOOLEAN :
               IF started
               THEN /\ listener' = "obj"
                    /\ lis_thread' = "alive"
                    /\ hist' = [hist EXCEPT !.subscriptions = @ + 1]
                    /\ pc' = [pc EXCEPT !["main"] =
                                 [at |-> "owner", ctx |-> "start_true"]]
               ELSE /\ listener' = "None"
                    /\ pc' = [pc EXCEPT !["main"] =
                                 [at |-> "owner", ctx |-> "start_false"]]
                    /\ UNCHANGED <<lis_thread, hist>>
    /\ UNCHANGED <<trigger_hotkey_str, exit_hotkey_str, built,
                   trigger_combination, exit_key_obj, workflow_callback,
                   current_keys, exit_app_flag, is_running_query, lock, ev,
                   worker>>

\* a key other than the exit key is pressed
OwnerPress(key) == Family(key) # exit_key_obj /\ OnPressEnter(key)

NextOwner ==
    \/ OwnerCallsStart
    \/ Start
    \/ OwnerCallsStop
    \/ StCheck("main")
    \/ StAlive("main")
    \/ StStop("main")
    \/ StClear("main")
    \/ \E key \in Keyboard : OwnerPress(key)
    \/ OnPressLock
    \/ OnPressCrit
    \/ OnPressExitKey
    \/ \E key \in Keyboard : OnRelease(key)
    \/ EvReturn
    \/ ListenerExit
    \/ \E w \in Workers : WorkerBegin(w)
    \/ \E w \in Workers : WorkerFinally(w)
    \/ \E w \in Workers : WorkerEnd(w)

\* the listener is constructed and its callback registered; the owner has
\* made no call yet
InitOwner ==
    LET c == ConstructResult(TRIGGER_HOTKEY_SCREENSHOT, EXIT_HOTKEY_STR)
    IN  /\ trigger_hotkey_str = TRIGGER_HOTKEY_SCREENSHOT
        /\ exit_hotkey_str = EXIT_HOTKEY_STR
        /\ built = c.built
        /\ trigger_combination = c.trigger
        /\ exit_key_obj = c.exit_key
        /\ workflow_callback = "fn"
        /\ current_keys = {}
        /\ exit_app_flag = FALSE
        /\ is_running_query = FALSE
        /\ lock = "free"
        /\ listener = "None"
        /\ lis_thread = "none"
        /\ pc = [t \in Threads |->
                    [at |-> IF t = "main" THEN "owner" ELSE "idle",
                     ctx |-> "none"]]
        /\ ev = NoEvent
        /\ worker = [w \in Workers |-> "none"]
        /\ hist = [rx_sets |-> 0, signals |-> 0, raced |-> FALSE,
                   last_exit |-> "none", subscriptions |-> 0,
               errored |-> FALSE, script |-> 0, spawned |-> 0,
               phys |-> {}]

SpecOwner == InitOwner /\ [][NextOwner]_vars

-----------------------------------------------------------------------------
(* The end-to-end scenario: the chord, the chord again while the workflow   *)
(* runs, the chord after it has finished, then the exit key                 *)

\* the keys pressed, in order; none is released
Script ==
    <<"Key.shift", "Key.space", "Key.shift", "Key.space",
      "Key.shift", "Key.space", "Key.esc">>

\* events 1..i of the script were delivered and their handlers have returned
ScriptHandled(i) == hist.script = i + 1 /\ At("ev", "idle")

\* when the next event of the script may arrive: the second chord while the
\* worker is running, the third once it has called set_query_running(False)
ScriptReady ==
    CASE hist.script \in {3, 4} ->
            is_running_query /\ \E w \in Workers : worker[w] = "running"
      [] hist.script = 5 -> ~is_running_query /\ hist.spawned = 1
      [] OTHER -> TRUE

\* the next key of the script is pressed, in its left or right variant
ScriptPress ==
    /\ hist.script \in 1..Len(Script)
    /\ ScriptReady
    /\ \E key \in Keyboard :
          /\ Family(key) = Script[hist.script]
          /\ OnPressCheck(key)
    /\ hist' = [hist EXCEPT !.script = @ + 1]

\* the first worker finishes between the second and the third chord; later
\* workers finish when they finish
ScriptWorkerFinally(w) ==
    /\ hist.spawned = 1 => ScriptHandled(4)
    /\ WorkerFinally(w)

\* events that arrive after the script
LatePress(key) == hist.script > Len(Script) /\ OnPressEnter(key)
LateRelease(key) == hist.script > Len(Script) /\ OnRelease(key)

NextScript ==
    \/ MainAddCallback
    \/ MainStart
    \/ WaitCall
    \/ WaitReturn
    \/ ScriptPress
    \/ OnPressLock
    \/ OnPressCrit
    \/ OnPressExitKey
    \/ RxCheck("ev")
    \/ RxSet("ev")
    \/ StCheck("ev")
    \/ StAlive("ev")
    \/ StStop("ev")
    \/ StClear("ev")
    \/ EvReturn
    \/ ListenerExit
    \/ \E key \in Keyboard : LatePress(key)
    \/ \E key \in Keyboard : LateRelease(key)
    \/ \E w \in Workers : WorkerBegin(w)
    \/ \E w \in Workers : ScriptWorkerFinally(w)
    \/ \E w \in Workers : WorkerEnd(w)

\* the listener of main_screenshot.py, with the script about to begin
InitScript ==
    LET c == ConstructResult(TRIGGER_HOTKEY_SCREENSHOT, EXIT_HOTKEY_STR)
    IN  /\ trigger_hotkey_str = TRIGGER_HOTKEY_SCREENSHOT
        /\ exit_hotkey_str = EXIT_HOTKEY_STR
        /\ built = c.built
        /\ trigger_combination = c.trigger
        /\ exit_key_obj = c.exit_key
        /\ FieldsAtStart
        /\ pc = [t \in Threads |->
                    [at |-> IF t = "main" THEN "wire" ELSE "idle",
                     ctx |-> "none"]]
        /\ ev = NoEvent
        /\ worker = [w \in Workers |-> "none"]
        /\ hist = [rx_sets |-> 0, signals |-> 0, raced |-> FALSE,
                   last_exit |-> "none", subscriptions |-> 0,
                   errored |-> FALSE, script |-> 1, spawned |-> 0,
               phys |-> {}]

SpecScript == InitScript /\ [][NextScript]_vars

-----------------------------------------------------------------------------
(* The listener with the keyboard followed key by key: hist.phys is the set  *)
(* of raw keys that are physically down                                      *)

\* a key goes down, or repeats while it is held down
PhysPress(key) ==
    /\ key \in EventKeys
    /\ OnPressCheck(key)
    /\ hist' = [hist EXCEPT !.phys = @ \cup {key}]

\* a key that is down goes up
PhysRelease(key) ==
    /\ key \in hist.phys
    /\ OnReleaseCheck(key)
    /\ hist' = [hist EXCEPT !.phys = @ \ {key}]

NextKeys ==
    \/ MainAddCallback
    \/ MainStart
    \/ \E key \in Keyboard : PhysPress(key)
    \/ \E key \in Keyboard : PhysRelease(key)
    \/ OnPressLock
    \/ OnPressCrit
    \/ OnPressExitKey
    \/ RxCheck("ev")
    \/ RxSet("ev")
    \/ StCheck("ev")
    \/ StAlive("ev")
    \/ StStop("ev")
    \/ StClear("ev")
    \/ EvReturn
    \/ ListenerExit
    \/ \E w \in Workers : WorkerBegin(w)
    \/ \E w \in Workers : WorkerFinally(w)
    \/ \E w \in Workers : WorkerEnd(w)

SpecKeys == Init /\ [][NextKeys]_vars

-----------------------------------------------------------------------------
(* The constructor on hotkey strings other than the configured ones *)

\* parts of hotkey strings, as written by a user
TriggerParts ==
    {<<"s","h","i","f","t">>, <<" ","S","p","a","c","e">>,
     <<"c","m","d">>, <<"w","i","n">>, <<"C">>, <<"c">>,
     <<"s","h","i","f","t","_","l">>, <<"f","o","o">>, <<>>}
ExitParts ==
    {<<"e","s","c">>, <<"c","t","r","l">>, <<"E","s","c"," ">>,
     <<"q","q">>, <<" ">>}

\* str.join: the parts with "+" between them
RECURSIVE StrJoin(_)
StrJoin(parts) ==
    IF Len(parts) = 1 THEN parts[1]
    ELSE parts[1] \o <<"+">> \o StrJoin(Tail(parts))

\* the hotkey strings of at most MaxTokens parts
HotkeyStrings(parts) ==
    {StrJoin(ps) : ps \in UNION {[1..n -> parts] : n \in 1..MaxTokens}}

InitParse ==
    /\ trigger_hotkey_str \in HotkeyStrings(TriggerParts)
    /\ exit_hotkey_str \in HotkeyStrings(ExitParts)
    /\ built = "new"
    /\ trigger_combination = ParseNone
    /\ exit_key_obj = "unset"
    /\ FieldsAtStart
    /\ ThreadsAtStart

\* HotkeyListener.__init__
Construct ==
    /\ built = "new"
    /\ LET c == ConstructResult(trigger_hotkey_str, exit_hotkey_str)
       IN  /\ built' = c.built
           /\ trigger_combination' = c.trigger
           /\ exit_key_obj' = c.exit_key
    /\ UNCHANGED <<trigger_hotkey_str, exit_hotkey_str, workflow_callback,
                   current_keys, exit_app_flag, is_running_query, lock,
                   listener, lis_thread, pc, ev, worker, hist>>

SpecParse == InitParse /\ [][Construct]_vars

\* the key objects pynput can hand to _on_press: the members of keyboard.Key
\* and the key codes of the characters
RawKeys ==
    {KeyAttr(name) : name \in KeyMembers} \cup
    {FromChar(LowerChars[i]) : i \in 1..Len(LowerChars)}

\* what _on_press can add to PressedKeySet and compare with the exit key:
\* norm_key = self._normalize_key(key)
PressableKeys == {NormalizeKey(key) : key \in RawKeys}

-----------------------------------------------------------------------------
(* Claims about the trigger, the workers and the exit flag *)

\* the workers that were spawned and have not finished
Active == {w \in Workers : worker[w] # "none"}

\* the workers that have not yet called set_query_running(False)
BeforeFalse == {w \in Workers : worker[w] \in {"spawned", "running"}}

\* a step that starts no worker
NoSpawnStep == \A w \in Workers : worker'[w] = "spawned" => worker[w] = "spawned"

\* a step in which the event thread enters a handler
HandlerEntered == ev.kind = "none" /\ ev'.kind # "none"

\* C1 as stated: at most one worker spawned by _on_press is active (spawned
\* and not yet finished) in every reachable state.
C1_AtMostOneActiveWorker == Cardinality(Active) <= 1

\* C1 amended: at most one worker is between its spawn and its call of
\* set_query_running(False), as long as no trigger press was processed
\* between a spawn and that worker's set_query_running(True).
C1_AtMostOneBeforeFalseOutsideWindow ==
    ~hist.raced => Cardinality(BeforeFalse) <= 1

\* C1 witness: without any press in the window, one worker is past its
\* set_query_running(False) and the next one has been spawned
C1_Witness ==
    /\ ~hist.raced
    /\ \E w \in Workers : worker[w] = "tail"
    /\ \E w \in Workers : worker[w] = "spawned"

\* C2 as stated: while a spawned worker has not called
\* set_query_running(False), wherever it is in its execution, no step spawns
\* another worker.
C2_NoSpawnBeforeWorkerFinishes ==
    [][BeforeFalse # {} => NoSpawnStep]_vars

\* C2 amended: once a worker has called set_query_running(True) and until a
\* worker calls set_query_running(False), that is while RunningFlag is true,
\* no step spawns another worker.
C2_NoSpawnWhileRunning ==
    [][is_running_query => NoSpawnStep]_vars

\* C2 witness: a press that completes the held chord is under the lock while
\* RunningFlag is true
C2_Witness ==
    /\ At("ev", "crit")
    /\ is_running_query
    /\ TriggerHeld(current_keys)
    /\ workflow_callback = "fn"

\* every key of the trigger combination is held in some raw variant
ChordPressed ==
    \A k \in trigger_combination.keys : \E c \in current_keys : Family(c) = k

\* C3: from an empty PressedKeySet, with RunningFlag false, a callback
\* registered and no exit requested, pressing each key of the trigger once,
\* in any order and in its left or right variant, spawns exactly one worker:
\* none while a key of the chord is missing, one on the press that completes
\* the chord.
C3_ChordSpawnsExactlyOne ==
    /\ ~ChordPressed => Active = {}
    /\ (ChordPressed /\ pc["ev"].at \in {"lock", "crit"}) => Active = {}
    /\ (ChordPressed /\ pc["ev"].at \in {"exit_key", "ret", "idle"})
          => Cardinality(Active) = 1

\* C3 witness: the right shift key, pressed last, has completed the chord
\* ctrl+shift+a and its handler is past the spawn
C3_Witness ==
    /\ At("ev", "ret")
    /\ ev.key = "Key.shift_r"
    /\ current_keys = {"Key.ctrl", "Key.shift", "KeyCode.a"}
    /\ Cardinality(Active) = 1

\* C4: a press or release event whose handling begins once request_exit has
\* set ExitFlag returns False, leaves PressedKeySet as it is, goes to no
\* trigger check and spawns no worker.
C4_NoProcessingAfterExit ==
    [][(HandlerEntered /\ exit_app_flag) =>
          /\ ev'.ret = "False"
          /\ pc'["ev"].at = "ret"
          /\ current_keys' = current_keys
          /\ worker' = worker]_vars

\* C4 witness: with ExitFlag set, the press of a key that is neither held nor
\* the exit key has returned False and is not in PressedKeySet
C4_Witness ==
    /\ At("ev", "ret")
    /\ exit_app_flag
    /\ ev.kind = "press"
    /\ ev.ret = "False"
    /\ NormalizeKey(ev.key) # exit_key_obj
    /\ NormalizeKey(ev.key) \notin current_keys

\* C5: over all calls of request_exit, from all threads, ExitFlag is set and
\* stop() is invoked by request_exit once in total.
C5_RequestExitEffectOnce == hist.rx_sets <= 1

\* C6: ExitFlag is a latch: no step resets it.
C6_ExitFlagLatch == [][exit_app_flag => exit_app_flag']_vars

\* C6 witness: ExitFlag is set, the main thread has shut down and the
\* listener thread has ended
C6_Witness ==
    /\ exit_app_flag
    /\ pc["main"].at = "exited"
    /\ lis_thread = "dead"

\* some thread has called request_exit
RequestExitCalled ==
    exit_app_flag \/ \E t \in Callers : pc[t].at \in {"rx_check", "rx_set"}

\* C7: a thread blocked in wait_for_exit returns only when ExitFlag is set,
\* and it returns eventually once another thread has called request_exit.
C7_WaitForExit ==
    /\ [][(pc["wait"].at = "blocked" /\ pc'["wait"].at = "returned")
              => exit_app_flag]_vars
    /\ (At("wait", "blocked") /\ RequestExitCalled) ~> At("wait", "returned")

\* C7 witness: the thread that was blocked in wait_for_exit has returned
C7_Witness == At("wait", "returned") /\ exit_app_flag

\* C8: a press of the exit key that is handled to its end sets ExitFlag and
\* returns False, whatever PressedKeySet, RunningFlag and the callback are.
C8_ExitKeyAlwaysExits ==
    (/\ At("ev", "ret")
     /\ ev.kind = "press"
     /\ NormalizeKey(ev.key) = exit_key_obj) =>
        (exit_app_flag /\ ev.ret = "False")

-----------------------------------------------------------------------------
(* Claims about the constructor and the parser *)

\* the tokens of a hotkey string: its parts, lower-cased and trimmed
Tokens(hotkey_str) ==
    LET parts == StrSplit(StrLower(hotkey_str))
    IN  {StrStrip(parts[i]) : i \in 1..Len(parts)}

\* a token the parser knows: a _KEY_MAP name, one character, or a member of
\* keyboard.Key
Recognized(token) == PartKey(token) # "None"

\* the keys the recognized tokens of a string name
TokenKeys(hotkey_str) ==
    {PartKey(t) : t \in {u \in Tokens(hotkey_str) : Recognized(u)}}

CtrlEsc == <<"c","t","r","l","+","e","s","c">>

\* C9: construction raises ValueError exactly when the trigger or the exit
\* string has an unrecognized token, parses to the empty set, or the exit
\* string parses to more than one key; exit "esc" constructs with the single
\* exit key esc and exit "ctrl+esc" fails construction.
C9_ConstructionFailsExactly ==
    built # "new" =>
        /\ built = "ValueError" <=>
              \/ \E t \in Tokens(trigger_hotkey_str) : ~Recognized(t)
              \/ \E t \in Tokens(exit_hotkey_str) : ~Recognized(t)
              \/ TokenKeys(trigger_hotkey_str) = {}
              \/ TokenKeys(exit_hotkey_str) = {}
              \/ Cardinality(TokenKeys(exit_hotkey_str)) > 1
        /\ built = "ok" => TokenKeys(exit_hotkey_str) = {exit_key_obj}
        /\ (exit_hotkey_str = EXIT_HOTKEY_STR /\ trigger_combination.ok)
              => (built = "ok" /\ exit_key_obj = "Key.esc")
        /\ exit_hotkey_str = CtrlEsc => built = "ValueError"

\* C9 witness: the constructor has rejected the exit string "ctrl+esc" next
\* to a trigger string that parses
C9_Witness ==
    /\ built = "ValueError"
    /\ exit_hotkey_str = CtrlEsc
    /\ trigger_combination.ok

\* C10 as stated: the parsed set of a valid string has as many keys as the
\* string has distinct tokens.
C10_SizeEqualsDistinctTokens ==
    (built # "new" /\ trigger_combination.ok) =>
        Cardinality(trigger_combination.keys)
            = Cardinality(Tokens(trigger_hotkey_str))

\* the alias names of _KEY_MAP count as one token
AliasClass(token) ==
    IF StrName(token) \in {"win", "command"} THEN "cmd" ELSE StrName(token)

\* the tokens _KEY_MAP or KeyCode.from_char resolve
TableToken(token) == StrName(token) \in DOMAIN KEY_MAP \/ Len(token) = 1

\* C10 amended: for a valid string whose tokens are _KEY_MAP names or single
\* characters, the parsed set has as many keys as the string has distinct
\* tokens once the aliases cmd, win and command count as one token; repeated
\* tokens collapse to one key.
C10_SizeEqualsDistinctTokensUpToAlias ==
    (/\ built # "new"
     /\ trigger_combination.ok
     /\ \A t \in Tokens(trigger_hotkey_str) : TableToken(t)) =>
        Cardinality(trigger_combination.keys)
            = Cardinality({AliasClass(t) : t \in Tokens(trigger_hotkey_str)})

\* C10 witness: "shift+shift" has been parsed to the one key shift
C10_Witness ==
    /\ built # "new"
    /\ trigger_hotkey_str = <<"s","h","i","f","t","+","s","h","i","f","t">>
    /\ trigger_combination = ParseKeys({"Key.shift"})

-----------------------------------------------------------------------------
(* Claims about the workflow, start and stop *)

\* C11: the workflow's first step is set_query_running(True); every way out
\* of it (completion, capture failure, abort on exit request, exception of a
\* provider) passes set_query_running(False) before the thread ends; and
\* whenever no spawned worker is left, RunningFlag is false.
C11_FlagResetOnEveryPath ==
    /\ [](Active = {} => ~is_running_query)
    /\ [][\A w \in Workers :
            /\ (worker[w] = "spawned" /\ worker'[w] # "spawned")
                  => (worker'[w] = "running" /\ is_running_query')
            /\ (worker[w] # "tail" /\ worker'[w] = "tail")
                  => ~is_running_query'
            /\ (worker[w] # "none" /\ worker'[w] = "none")
                  => worker[w] = "tail"]_vars

\* C11 witness: a worker that aborted on the exit request was the last to
\* pass the finally clause, and every worker has ended
C11_Witness ==
    /\ hist.last_exit = "leave_abort"
    /\ exit_app_flag
    /\ Active = {}
    /\ ~is_running_query

\* the outcome of the owner's last call
OwnerResult == pc["main"].ctx

\* C12: with start() and stop() called one after the other in any order, no
\* call of stop() raises (before any start(), after a failed start(), after
\* another stop()), and once stop() has returned the coordinator holds no
\* listener reference.
C12_StopSafeSequentially ==
    /\ OwnerResult # "raised"
    /\ (OwnerAt /\ OwnerResult = "stop_done") => listener = "None"

\* C12 witness: stop() has returned although no listener was ever started
C12_Witness ==
    /\ OwnerAt
    /\ OwnerResult = "stop_done"
    /\ hist.subscriptions = 0
    /\ listener = "None"

\* the owner's call of start() returns in this step
StartReturns == At("main", "start") /\ pc'["main"].at = "owner"

\* C13: start() called while a listener is running returns success and
\* changes nothing: no new subscription, the same listener, and
\* PressedKeySet, RunningFlag and ExitFlag as they were.
C13_StartWhileRunningIsNoOp ==
    [][(StartReturns /\ ListenerRunning) =>
          /\ OwnerResult' = "start_running"
          /\ hist'.subscriptions = hist.subscriptions
          /\ UNCHANGED <<listener, lis_thread, current_keys,
                         is_running_query, exit_app_flag>>]_vars

\* C13 witness: start() has returned from a running listener while keys were
\* held and a workflow was running
C13_Witness ==
    /\ OwnerAt
    /\ OwnerResult = "start_running"
    /\ current_keys # {}
    /\ is_running_query
    /\ hist.subscriptions = 1

\* C14: a start() that fails to subscribe returns False without raising and
\* leaves the coordinator as it was before any start(): no listener
\* reference, no subscription, every other field unchanged.
C14_FailedStartLeavesNothing ==
    /\ [][(StartReturns /\ OwnerResult' # "start_running"
                        /\ OwnerResult' # "start_true") =>
            /\ OwnerResult' = "start_false"
            /\ listener = "None" /\ listener' = "None"
            /\ UNCHANGED <<lis_thread, workflow_callback, current_keys,
                           exit_app_flag, is_running_query, lock, worker,
                           hist>>]_vars
    /\ [](OwnerResult = "start_false" => listener = "None")

\* C14 witness: start() has failed after an earlier listener was started and
\* stopped, and the coordinator holds no listener
C14_Witness ==
    /\ OwnerAt
    /\ OwnerResult = "start_false"
    /\ hist.subscriptions = 1
    /\ listener = "None"

-----------------------------------------------------------------------------
(* Claims about single events *)

\* the handler in progress is at its return
HandlerDone == At("ev", "ret")

\* C15: an error raised while an event is handled is swallowed: that handler
\* returns without halting the subscription, and every event handled after
\* it is processed in full: its key is tracked, a completed chord with
\* RunningFlag false spawns a worker, and the exit key requests exit.
C15_ErrorsAreIsolated ==
    /\ [][(HandlerDone /\ ev.ret = "True" /\ pc'["ev"].at = "idle")
              => lis_thread' = lis_thread]_vars
    /\ [][(hist.errored /\ At("ev", "crit") /\ ~is_running_query
              /\ pc'["ev"].at # "crit") => ~NoSpawnStep]_vars
    /\ []((hist.errored /\ HandlerDone /\ ev.kind = "press") =>
            /\ ev.ret # "False" => NormalizeKey(ev.key) \in current_keys
            /\ NormalizeKey(ev.key) = exit_key_obj
                  => (exit_app_flag /\ ev.ret = "False"))

\* the scenario up to the third chord: one worker for the first chord, none
\* for the second while it runs, and one more at the first press after it
\* has called set_query_running(False)
ScriptUpToThirdChord ==
    /\ (ScriptHandled(2) \/ ScriptHandled(3) \/ ScriptHandled(4))
          => hist.spawned = 1
    /\ ScriptHandled(5) => hist.spawned = 2

\* the exit at the end of the scenario: ExitFlag is set, which lets
\* wait_for_exit() return, and no event that arrives later is processed
ScriptExit ==
    /\ [](ScriptHandled(7) => exit_app_flag)
    /\ [][(pc["wait"].at = "blocked" /\ pc'["wait"].at = "returned")
              => exit_app_flag]_vars
    /\ [][(hist.script > Len(Script) /\ exit_app_flag /\ HandlerEntered) =>
              /\ ev'.ret = "False"
              /\ current_keys' = current_keys
              /\ worker' = worker]_vars

C17_ReleaseOfAbsentKeyIsNoOp ==
    /\ [][(HandlerEntered /\ ev'.kind = "release" /\ ~exit_app_flag
              /\ NormalizeKey(ev'.key) \notin current_keys) =>
            /\ ev'.ret = "None"
            /\ UNCHANGED <<current_keys, is_running_query, exit_app_flag,
                           lis_thread>>]_vars
    /\ [][(HandlerDone /\ ev.kind = "release" /\ ev.ret = "None"
              /\ pc'["ev"].at = "idle") => lis_thread' = lis_thread]_vars

\* C17 witness: with a callback registered a handled press of the exit key
\* always sets ExitFlag, so a release of esc that found ExitFlag unset (it
\* returns None) is the release of a key that was never pressed; here it is
\* handled while shift is held
C17_Witness ==
    /\ HandlerDone
    /\ ev.kind = "release"
    /\ ev.key = "Key.esc"
    /\ ev.ret = "None"
    /\ workflow_callback = "fn"
    /\ ~exit_app_flag
    /\ current_keys = {"Key.shift"}

-----------------------------------------------------------------------------
(* Claims about RunningFlag and the race window *)

\* the workers that were spawned and have not called set_query_running(True)
NotYetRunning == {w \in Workers : worker[w] = "spawned"}

\* C18: the race window exists: the step that spawns a worker has seen
\* RunningFlag false and leaves it false, and a press that passes the lock
\* while a spawned worker has not yet called set_query_running(True) sees it
\* false too and spawns a second worker while the first is still active.
C18_RaceWindowOpen ==
    /\ [][~NoSpawnStep => (~is_running_query /\ ~is_running_query')]_vars
    /\ [][(At("ev", "crit") /\ pc'["ev"].at # "crit" /\ NotYetRunning # {}
              /\ ~is_running_query /\ workflow_callback = "fn") =>
            /\ ~NoSpawnStep
            /\ Cardinality({w \in Workers : worker'[w] # "none"}) >= 2]_vars

\* C18 witness: two workers were spawned and neither has called
\* set_query_running(True) yet
C18_Witness ==
    /\ hist.raced
    /\ Cardinality(NotYetRunning) = 2
    /\ ~is_running_query

\* the workers between set_query_running(True) and set_query_running(False)
Executing == {w \in Workers : worker[w] = "running"}

\* C19 as stated: RunningFlag is true in every state in which some worker is
\* executing its workflow, however many workers have been spawned.
C19_FlagTrueWhileExecuting == Executing # {} => is_running_query

\* C19 amended: as long as no press was processed in the window between a
\* spawn and that worker's set_query_running(True), RunningFlag is true in
\* every state in which a worker is executing its workflow.
C19_FlagTrueWhileExecutingOutsideWindow ==
    ~hist.raced => (Executing # {} => is_running_query)

\* C19 witness: without any press in the window, one worker is executing
\* with RunningFlag true while an earlier worker has not ended yet
C19_Witness ==
    /\ ~hist.raced
    /\ Cardinality(Executing) = 1
    /\ is_running_query
    /\ \E w \in Workers : worker[w] = "tail"

\* C20: a worker is spawned only by a press that completes the chord anew
\* (the chord was not already held when the press arrived, so a key of it was
\* released since it last was complete) and only when every earlier workflow
\* has completed; a chord that stays held does not trigger again on repeated
\* presses.
C20_RetriggerNeedsReleaseAndCompletion ==
    [][~NoSpawnStep => (~ev.held /\ BeforeFalse = {})]_vars

-----------------------------------------------------------------------------
(* Claims about PressedKeySet *)

\* the normalized identifiers of the keys that are physically down
HeldIdentifiers == {Family(k) : k \in hist.phys}

\* C21: before exit is requested and between two events, PressedKeySet is the
\* set of normalized identifiers of the keys that are physically down; a
\* modifier's canonical identifier is in it exactly while its left or its
\* right variant is down.
C21_PressedKeySetIsHeldKeys ==
    (~exit_app_flag /\ At("ev", "idle")) => current_keys = HeldIdentifiers

\* the raw side-specific variants of the modifiers
SideVariants ==
    {"Key.shift_l", "Key.shift_r", "Key.ctrl_l", "Key.ctrl_r", "Key.alt_l",
     "Key.alt_r", "Key.alt_gr", "Key.cmd_l", "Key.cmd_r"}

-----------------------------------------------------------------------------
(* Claims about who writes RunningFlag *)

\* a step in which worker w calls set_query_running(status)
WorkerSets(w, status) ==
    /\ worker[w] = (IF status THEN "spawned" ELSE "running")
    /\ worker'[w] = (IF status THEN "running" ELSE "tail")
    /\ is_running_query' = status
    /\ pc' = pc
    /\ ev' = ev

\* C23: the press and release handlers never write RunningFlag: every step
\* that changes it is a worker's set_query_running and no step of the event
\* thread, so across a whole event, a spawning one included, the flag changes
\* only if a worker changed it; it becomes true only by a worker's own
\* set_query_running(True).
C23_OnlyWorkersWriteRunningFlag ==
    [][is_running_query' # is_running_query =>
         \E w \in Workers : WorkerSets(w, is_running_query')]_vars

\* C23 witness: a press handler has spawned a worker and is about to return,
\* and RunningFlag is still false
C23_Witness ==
    /\ At("ev", "ret")
    /\ ev.kind = "press"
    /\ \E w \in Workers : worker[w] = "spawned"
    /\ \A w \in Workers : worker[w] \in {"none", "spawned"}
    /\ ~is_running_query

-----------------------------------------------------------------------------
(* Claims about the trigger without a callback *)

\* C24: on a listener for which no callback was ever registered, a press that
\* completes the trigger chord is a no-op: when its handler is at its return
\* no worker was spawned, no error was raised in the handler (it does not
\* return True from its except clause), and the exit-key check took place: a
\* press of the exit key has set ExitFlag and returns False.
C24_NoCallbackIsNoOp ==
    (/\ HandlerDone
     /\ ev.kind = "press"
     /\ workflow_callback = "unset"
     /\ TriggerHeld(current_keys)) =>
        /\ \A w \in Workers : worker[w] = "none"
        /\ ev.ret # "True"
        /\ NormalizeKey(ev.key) = exit_key_obj
              => (exit_app_flag /\ ev.ret = "False")

-----------------------------------------------------------------------------
(* Claims about the checkpoints of the workflow *)

\* the positions at which the workflow tests is_exit_requested()
Checkpoints == {"check1", "check3"} \cup AnalysisResults

\* the positions at which a call to a provider is in flight
InFlight == {"running", "analyze", "speak"}

\* worker w takes a step
Moves(w) == worker'[w] # worker[w]

\* C25: a workflow that finds ExitFlag set at a checkpoint returns without
\* any further provider call: from a checkpoint with ExitFlag set it goes to
\* its return and from there to the finally clause only. ExitFlag stays set,
\* so the analysis is entered only if exit was not requested before the
\* capture returned, and speech only if it was not requested before the
\* analysis returned. A call in flight is not interrupted: it ends by its own
\* return or exception, never by the abort.
C25_CheckpointsAbort ==
    /\ [][exit_app_flag => exit_app_flag']_vars
    /\ [][\A w \in Workers :
            /\ (worker[w] \in Checkpoints /\ exit_app_flag /\ Moves(w))
                  => worker'[w] = "leave_abort"
            /\ (worker[w] = "leave_abort" /\ Moves(w)) => worker'[w] = "tail"
            /\ (worker'[w] \in {"analyze", "speak"} /\ Moves(w))
                  => ~exit_app_flag
            /\ (worker[w] \in InFlight /\ Moves(w))
                  => worker'[w] # "leave_abort"]_vars

\* C25 witness: a workflow has found ExitFlag set at a checkpoint and is at
\* its return, while another one has its analysis in flight
C25_Witness ==
    /\ exit_app_flag
    /\ \E w \in Workers : worker[w] = "leave_abort"
    /\ \E w \in Workers : worker[w] = "analyze"

-----------------------------------------------------------------------------
(* Claims about the event thread and the lock *)

\* a handler has begun and is not yet at its return
HandlerRunning == ev.kind # "none" /\ ~HandlerDone

\* C26: the event thread never waits for a workflow. The lock that guards
\* RunningFlag is held only by the event thread inside the short section of
\* _on_press, and every handler that has begun reaches its return, whatever
\* the workers do, also when a spawned worker never finishes: the event
\* thread and a worker are never deadlocked on the lock.
C26_EventThreadNeverBlocks ==
    /\ [](lock # "free" => (lock = "ev" /\ At("ev", "crit")))
    /\ HandlerRunning ~> HandlerDone

\* C26 witness: a press handler is at its return with the lock free while a
\* workflow spawned earlier is still running
C26_Witness ==
    /\ HandlerDone
    /\ ev.kind = "press"
    /\ lock = "free"
    /\ \E w \in Workers : worker[w] = "running"

-----------------------------------------------------------------------------
(* Claims about the result of the analysis *)

\* C27: every failure of the analysis reaches the workflow as a text with
\* the error or the blocked prefix: analyze_image hands the workflow an
\* answer or a text with a prefix; and the workflow speaks an answer only,
\* so a failed or blocked analysis is never spoken.
C27_FailuresAreTaggedAndSilent ==
    [][\A w \in Workers :
         /\ (worker[w] = "analyze" /\ worker'[w] \in AnalysisResults)
               => (worker'[w] = "check2_answer" \/ StartsWithPrefix(worker'[w]))
         /\ (worker'[w] = "speak" /\ Moves(w))
               => worker[w] = "check2_answer"]_vars

-----------------------------------------------------------------------------
(* Claims about shutdown *)

\* the main thread has ended
MainExited == pc["main"].at = "exited"

\* an exception has left stop() or request_exit() on the main thread: the
\* main thread is in an except clause for it, or in the finally clause with
\* the exception still to propagate
ExceptionEscaped ==
    pc["main"].ctx \in {"loop_except", "finally_exc", "emergency"}

\* C28: shutdown is live: once exit is requested on a started listener, by
\* the exit key, a signal or KeyboardInterrupt, the main thread leaves its
\* polling loop, calls stop() and ends; it ends with ExitFlag set and no
\* listener reference; and no exception escapes on the way.
C28_ShutdownIsLive ==
    /\ (exit_app_flag /\ hist.subscriptions > 0) ~> MainExited
    /\ []((MainExited /\ hist.subscriptions > 0) =>
             (exit_app_flag /\ listener = "None"))
    /\ [](~ExceptionEscaped)

\* C29: once ExitFlag is set no new worker is spawned, also when
\* request_exit() runs on another thread (the signal handler or the main
\* loop) while the event thread is in the middle of a press event.
C29_NoSpawnAfterExit == [][exit_app_flag => NoSpawnStep]_vars

\* C30: stop() never raises and never dereferences a cleared listener
\* reference when the event thread (request_exit() -> stop()) and the main
\* thread (stop_listening() -> stop()) execute it at the same time: a thread
\* that is past the test of self._listener, at is_alive() or at the
\* listener's stop(), still finds the reference set.
C30_ConcurrentStopIsSafe ==
    \A t \in {"ev", "main"} :
        (At(t, "st_alive") \/ At(t, "st_stop")) => listener # "None"

-----------------------------------------------------------------------------
(* Claims about the accepted configurations and the exit key in a chord *)

\* C31: every hotkey configuration the constructor accepts can be reached by
\* key events: every key of the accepted trigger combination is one that a
\* press can put into PressedKeySet, so some presses make the combination a
\* subset of it, and the accepted exit key is the normalized key of some
\* press; also when a token names a side-specific variant such as "shift_l".
C31_AcceptedHotkeysAreReachable ==
    built = "ok" =>
        /\ trigger_combination.keys \subseteq PressableKeys
        /\ exit_key_obj \in PressableKeys

\* C32: a single press event never both spawns a worker and requests exit:
\* the handler of a press of the exit key, which goes on to request_exit(),
\* takes no step that starts a worker, also when the trigger chord is held
\* and RunningFlag is false as the exit key goes down.
C32_ExitPressSpawnsNothing ==
    [][~NoSpawnStep => NormalizeKey(ev.key) # exit_key_obj]_vars

====
